---- MODULE Spec2Model ----
(***************************************************************************)
(* Model of the JD-Match client (src/src/App.jsx, component App): the      *)
(* session state held in React hooks and the rewrite-application engine    *)
(* of handleApplyRewrite (three search tiers, replacement, highlight).     *)
(*                                                                         *)
(* The analyze endpoint of the server (src/server/index.js, POST           *)
(* /api/analyze with generateWithRetry) is modelled beside it, one request *)
(* at a time, every await of the handler being a step of its own.          *)
(*                                                                         *)
(* Strings are sequences of one-character strings; offsets are 0-based as  *)
(* in JavaScript (At, Slice and IndexOf take and return 0-based offsets).  *)
(***************************************************************************)
EXTENDS Integers, Sequences, FiniteSets, TLC

VARIABLES
    resumeFile,      \* useState(null): TRUE when a PDF file is selected
    jobDescription,  \* useState(''): text of the job description
    isLoading,       \* useState(false)
    results,         \* useState(null): Null or the analysis result
    error,           \* useState(null): Null or [message]
    resumeText,      \* useState(''): the live resume text
    appliedRewrites, \* useState(new Set()): indices applied so far
    highlightRange,  \* useState(null): Null or [start, end]
    request,         \* the fetch of handleSubmit: "none" or "pending"
    timers,          \* number of pending setTimeout(() => setHighlightRange(null))
    last,            \* the last handler that ran, with the locals it ended with
    srvPc,           \* where the analyze handler is: "idle", "pdf", "generate",
                     \* "backoff" or "done"
    srvReq,          \* the request being handled: [file, field, jobDescription]
    attempt,         \* generateWithRetry: the loop counter
    calls,           \* model.generateContent calls made for the request
    pdfCalls,        \* pdf() calls made for the request
    delays,          \* the delays generateWithRetry has waited, in ms
    caught,          \* the error the last catch block received, or Null
    recurring,       \* every failed model call of the request threw `caught`
    analysis,        \* const analysis = JSON.parse(...): [value], Null before
    extracted,       \* const resumeText = pdfData.text: [text], Null before pdf() resolves
    responses        \* the responses sent for the request

clientVars == <<resumeFile, jobDescription, isLoading, results, error, resumeText,
                appliedRewrites, highlightRange, request, timers, last>>

serverVars == <<srvPc, srvReq, attempt, calls, pdfCalls, delays, caught,
                recurring, extracted, analysis, responses>>

vars == <<clientVars, serverVars>>

Null == [null |-> TRUE]

----------------------------------------------------------------------------
(* Bounds of the model *)

MaxTextLen == 3     \* longest live text of the exhaustive input family
MaxOrigLen == 2     \* longest `original` of the exhaustive input family
MaxLineWords == 9   \* most words on one line of a word-built live text
MaxOrigWords == 10  \* most words of a word-built `original`
MaxTimers == 2      \* most highlight timers pending at once
NumRewrites == 3    \* rewrites in one response of a session
MaxPairLen == 4     \* longest live text of a session with a pair of rewrites

----------------------------------------------------------------------------
(* Characters and strings *)

NL == "\n"
SP == " "

\* /\s/ restricted to the whitespace characters the inputs use
IsWs(c) == c \in {SP, NL, "\t", "\r"}

UpperChars == <<"A","B","C","D","E","F","G","H","I","J","K","L","M",
                "N","O","P","Q","R","S","T","U","V","W","X","Y","Z">>
LowerChars == <<"a","b","c","d","e","f","g","h","i","j","k","l","m",
                "n","o","p","q","r","s","t","u","v","w","x","y","z">>

\* the upper-case letters with their lower-case forms
UpperToLower ==
    [c \in {UpperChars[i] : i \in 1..26} |->
        LowerChars[CHOOSE i \in 1..26 : UpperChars[i] = c]]

\* 'İ' (U+0130), the one character whose lower case is two characters long:
\* 'i' followed by the combining dot above (U+0307)
IDOT == "I-dot"
DOT  == "dot-above"

\* String.prototype.toLowerCase on one character: the characters it gives
LowerChar(c) ==
    IF c = IDOT THEN <<"i", DOT>>
    ELSE IF c \in DOMAIN UpperToLower THEN <<UpperToLower[c]>>
    ELSE <<c>>

RECURSIVE toLowerCase(_)
toLowerCase(s) ==
    IF s = <<>> THEN <<>> ELSE LowerChar(Head(s)) \o toLowerCase(Tail(s))

Min(a, b) == IF a < b THEN a ELSE b

\* s[i] with a 0-based index
At(s, i) == s[i + 1]

\* String.prototype.slice(a, b) for 0 <= a, with b clamped to the length
Slice(s, a, b) == SubSeq(s, a + 1, Min(b, Len(s)))

\* does sub occur in s at 0-based offset i
OccursAt(s, sub, i) ==
    /\ i >= 0
    /\ i + Len(sub) <= Len(s)
    /\ \A k \in 1..Len(sub) : s[i + k] = sub[k]

\* String.prototype.indexOf(sub, from): first offset >= from, or -1
RECURSIVE IndexOfFrom(_, _, _)
IndexOfFrom(s, sub, from) ==
    IF from + Len(sub) > Len(s) THEN -1
    ELSE IF OccursAt(s, sub, from) THEN from
    ELSE IndexOfFrom(s, sub, from + 1)

IndexOf(s, sub) == IndexOfFrom(s, sub, 0)

----------------------------------------------------------------------------
(* The helpers of handleApplyRewrite *)

\* s.replace(/\s+/g, ' '): every maximal whitespace run becomes one space
RECURSIVE CollapseWs(_, _)
CollapseWs(s, i) ==
    IF i > Len(s) THEN <<>>
    ELSE IF IsWs(s[i])
         THEN IF i > 1 /\ IsWs(s[i - 1])
              THEN CollapseWs(s, i + 1)
              ELSE <<SP>> \o CollapseWs(s, i + 1)
         ELSE <<s[i]>> \o CollapseWs(s, i + 1)

\* String.prototype.trim
RECURSIVE TrimStart(_)
TrimStart(s) ==
    IF s # <<>> /\ IsWs(Head(s)) THEN TrimStart(Tail(s)) ELSE s

RECURSIVE TrimEnd(_)
TrimEnd(s) ==
    IF s # <<>> /\ IsWs(s[Len(s)]) THEN TrimEnd(SubSeq(s, 1, Len(s) - 1)) ELSE s

trim(s) == TrimEnd(TrimStart(s))

\* const normalize = (s) => s.replace(/\s+/g, ' ').trim().toLowerCase()
normalize(s) == toLowerCase(trim(CollapseWs(s, 1)))

\* the while loop that extends realEnd over trailing whitespace
RECURSIVE FoldTrailingWs(_, _)
FoldTrailingWs(text, realEnd) ==
    IF /\ realEnd < Len(text)
       /\ IsWs(At(text, realEnd))
       /\ (realEnd = Len(text) - 1 \/ IsWs(At(text, realEnd)))
    THEN IF ~(realEnd + 1 < Len(text) /\ IsWs(At(text, realEnd + 1)))
         THEN realEnd                              \* break
         ELSE FoldTrailingWs(text, realEnd + 1)    \* realEnd++
    ELSE realEnd

\* the for loop that maps the normalized span back to offsets of resumeText;
\* one call is one iteration, the result is the pair the loop ends with
RECURSIVE MapBack(_, _, _, _, _, _, _)
MapBack(text, normPos, normLen, ri, normI, realStart, realEnd) ==
    IF ~(ri < Len(text) /\ realEnd = -1)
    THEN [realStart |-> realStart, realEnd |-> realEnd]
    ELSE IF IsWs(At(text, ri))
    THEN IF ri = 0 \/ ~IsWs(At(text, ri - 1))
         THEN LET rs == IF normI = normPos /\ realStart = -1 THEN ri ELSE realStart
                  ni == normI + 1
                  re == IF ni = normPos + normLen /\ rs # -1 THEN ri + 1 ELSE realEnd
              IN  MapBack(text, normPos, normLen, ri + 1, ni, rs, re)
         ELSE LET re == IF normI = normPos + normLen /\ realStart # -1
                        THEN ri ELSE realEnd
              IN  MapBack(text, normPos, normLen, ri + 1, normI, realStart, re)
    ELSE LET rs == IF normI = normPos /\ realStart = -1 THEN ri ELSE realStart
             ni == normI + 1
             re == IF ni = normPos + normLen /\ rs # -1
                   THEN FoldTrailingWs(text, ri + 1) ELSE realEnd
         IN  MapBack(text, normPos, normLen, ri + 1, ni, rs, re)

NotFoundPos == [pos |-> -1, matchLen |-> 0]

\* Tier1 finding nothing for the empty original
Tier1_SkipsEmpty(text, original) ==
    [pos |-> IF original = <<>> THEN -1 ELSE IndexOf(text, original),
     matchLen |-> Len(original)]

\* Tier1 with lastIndexOf in the place of indexOf
Tier1_LastOccurrence(text, original) ==
    [pos |-> IF \E i \in 0..Len(text) : OccursAt(text, original, i)
             THEN CHOOSE i \in 0..Len(text) :
                    /\ OccursAt(text, original, i)
                    /\ \A j \in (i + 1)..Len(text) : ~OccursAt(text, original, j)
             ELSE -1,
     matchLen |-> Len(original)]

\* tier 1: let pos = resumeText.indexOf(original); let matchLen = original.length
Tier1(text, original) ==
    [pos |-> IndexOf(text, original), matchLen |-> Len(original)]

\* tier 2: the body of the first `if (pos === -1)`; pos stays -1 when the
\* normalized original is absent or the mapping leaves an offset unset
Tier2(text, original) ==
    LET normOriginal == normalize(original)
        normResume   == normalize(text)
        normPos      == IndexOf(normResume, normOriginal)
    IN  IF normPos = -1 THEN NotFoundPos
        ELSE LET m == MapBack(text, normPos, Len(normOriginal), 0, 0, -1, -1)
             IN  IF m.realStart # -1 /\ m.realEnd # -1
                 THEN [pos |-> m.realStart, matchLen |-> m.realEnd - m.realStart]
                 ELSE NotFoundPos

\* original.split(/\s+/): the pieces between maximal whitespace runs; a
\* leading or trailing run leaves an empty piece, '' gives ['']
RECURSIVE SplitWs(_, _, _)
SplitWs(s, i, cur) ==
    IF i > Len(s) THEN <<cur>>
    ELSE IF IsWs(s[i])
         THEN IF i > 1 /\ IsWs(s[i - 1])
              THEN SplitWs(s, i + 1, cur)
              ELSE <<cur>> \o SplitWs(s, i + 1, <<>>)
         ELSE SplitWs(s, i + 1, Append(cur, s[i]))

split(s) == SplitWs(s, 1, <<>>)

\* words.join(' ')
RECURSIVE join(_)
join(words) ==
    IF words = <<>> THEN <<>>
    ELSE IF Len(words) = 1 THEN words[1]
    ELSE words[1] \o <<SP>> \o join(Tail(words))

MaxFragWords == 8   \* Math.min(words.length, 8)
MinFragWords == 3   \* len >= 3

\* words.slice(0, len).join(' ')
Fragment(words, len) == join(SubSeq(words, 1, len))

\* FragLoop replacing the fragment only, not the rest of its line
RECURSIVE FragLoop_FragmentOnly(_, _, _)
FragLoop_FragmentOnly(text, words, len) ==
    IF len < MinFragWords THEN NotFoundPos
    ELSE LET fragLower == toLowerCase(Fragment(words, len))
             fragPos   == IndexOf(toLowerCase(text), fragLower)
         IN  IF fragPos # -1
             THEN [pos |-> fragPos, matchLen |-> Len(fragLower)]
             ELSE FragLoop_FragmentOnly(text, words, len - 1)

\* the for loop of tier 3, from fragment length len downwards
RECURSIVE FragLoop(_, _, _)
FragLoop(text, words, len) ==
    IF len < MinFragWords THEN NotFoundPos
    ELSE LET fragLower   == toLowerCase(Fragment(words, len))
             resumeLower == toLowerCase(text)
             fragPos     == IndexOf(resumeLower, fragLower)
         IN  IF fragPos # -1
             THEN LET nl     == IndexOfFrom(text, <<NL>>, fragPos)
                      endPos == IF nl = -1 THEN Len(text) ELSE nl
                  IN  [pos |-> fragPos, matchLen |-> endPos - fragPos]
             ELSE FragLoop(text, words, len - 1)

\* tier 3: the body of the second `if (pos === -1)`
Tier3(text, original) ==
    LET words == split(original)
    IN  FragLoop(text, words, Min(Len(words), MaxFragWords))

\* Locate trying the normalized match before the exact one
Locate_NormalizedFirst(text, original) ==
    LET t2 == Tier2(text, original)
    IN  IF t2.pos # -1 THEN [pos |-> t2.pos, matchLen |-> t2.matchLen, tier |-> 2]
        ELSE LET t1 == Tier1(text, original)
             IN  IF t1.pos # -1
                 THEN [pos |-> t1.pos, matchLen |-> t1.matchLen, tier |-> 1]
                 ELSE LET t3 == Tier3(text, original)
                      IN  IF t3.pos # -1
                          THEN [pos |-> t3.pos, matchLen |-> t3.matchLen, tier |-> 3]
                          ELSE [pos |-> -1, matchLen |-> Len(original), tier |-> 0]

\* lines 578-644: pos and matchLen when the three tiers have run; tier is
\* the tier that set pos (0 when none did)
Locate(text, original) ==
    LET t1 == Tier1(text, original)
    IN  IF t1.pos # -1 THEN [pos |-> t1.pos, matchLen |-> t1.matchLen, tier |-> 1]
        ELSE LET t2 == Tier2(text, original)
             IN  IF t2.pos # -1
                 THEN [pos |-> t2.pos, matchLen |-> t2.matchLen, tier |-> 2]
                 ELSE LET t3 == Tier3(text, original)
                      IN  IF t3.pos # -1
                          THEN [pos |-> t3.pos, matchLen |-> t3.matchLen, tier |-> 3]
                          ELSE [pos |-> -1, matchLen |-> Len(original), tier |-> 0]

----------------------------------------------------------------------------
(* The handlers of App *)

MsgNoFile   == [message |-> "Please upload your resume PDF."]
MsgNoJD     == [message |-> "Please paste a job description."]
MsgNotPdf   == [message |-> "Please upload a PDF file."]
MsgNotFound == [message |-> "Could not find the original text in your resume to replace. It may have already been modified."]
MsgServer   == [message |-> "An unknown error occurred."]
MsgBadBody  == [message |-> "Server returned an invalid response."]
MsgNetwork  == [message |-> "Network error. Please try again."]

\* indices of results.rewrites, 0-based
RewriteIndices == IF results = Null THEN {} ELSE 0..(Len(results.rewrites) - 1)

\* handleFileSelect(file), reachable from the input card (rendered when !results)
handleFileSelect(file) ==
    /\ results = Null
    /\ file # "none"
    /\ IF file # "pdf"
       THEN /\ error' = MsgNotPdf
            /\ UNCHANGED resumeFile
       ELSE /\ error' = Null
            /\ resumeFile' = TRUE
    /\ last' = [op |-> "fileSelect"]
    /\ UNCHANGED <<jobDescription, isLoading, results, resumeText,
                   appliedRewrites, highlightRange, request, timers>>
    /\ UNCHANGED serverVars

\* handleRemoveFile, the button is rendered while a file is selected
handleRemoveFile ==
    /\ results = Null
    /\ resumeFile = TRUE
    /\ resumeFile' = FALSE
    /\ last' = [op |-> "removeFile"]
    /\ UNCHANGED <<jobDescription, isLoading, results, error, resumeText,
                   appliedRewrites, highlightRange, request, timers>>
    /\ UNCHANGED serverVars

\* onChange={(e) => setJobDescription(e.target.value)}
editJobDescription(value) ==
    /\ results = Null
    /\ value # jobDescription
    /\ jobDescription' = value
    /\ last' = [op |-> "editJobDescription"]
    /\ UNCHANGED <<resumeFile, isLoading, results, error, resumeText,
                   appliedRewrites, highlightRange, request, timers>>
    /\ UNCHANGED serverVars

\* handleSubmit up to the await of fetch; the button is rendered when
\* !results and disabled while isLoading
handleSubmit ==
    /\ results = Null
    /\ ~isLoading
    /\ IF ~resumeFile
       THEN /\ error' = MsgNoFile
            /\ UNCHANGED <<isLoading, results, resumeText, appliedRewrites,
                           highlightRange, request>>
       ELSE IF trim(jobDescription) = <<>>
       THEN /\ error' = MsgNoJD
            /\ UNCHANGED <<isLoading, results, resumeText, appliedRewrites,
                           highlightRange, request>>
       ELSE /\ error' = Null
            /\ results' = Null
            /\ resumeText' = <<>>
            /\ appliedRewrites' = {}
            /\ highlightRange' = Null
            /\ isLoading' = TRUE
            /\ request' = "pending"
    /\ last' = [op |-> "submit"]
    /\ UNCHANGED <<resumeFile, jobDescription, timers>>
    /\ UNCHANGED serverVars

\* handleSubmit after the await: the response is OK and its body is JSON
submitOk(data) ==
    /\ request = "pending"
    /\ results' = data
    /\ resumeText' = data.resumeText
    /\ isLoading' = FALSE
    /\ request' = "none"
    /\ last' = [op |-> "submitOk"]
    /\ UNCHANGED <<resumeFile, jobDescription, error, appliedRewrites,
                   highlightRange, timers>>
    /\ UNCHANGED serverVars

\* submitFailed storing the body of a response that is not OK as the result
submitFailed_StoresBody(cause) ==
    /\ request = "pending"
    /\ error' = CASE cause = "network" -> MsgNetwork
                  [] cause = "body"    -> MsgBadBody
                  [] OTHER             -> MsgServer
    /\ results' = IF cause = "status"
                  THEN [resumeText |-> <<>>, rewrites |-> <<>>]
                  ELSE results
    /\ isLoading' = FALSE
    /\ request' = "none"
    /\ last' = [op |-> "submitFailed"]
    /\ UNCHANGED <<resumeFile, jobDescription, resumeText,
                   appliedRewrites, highlightRange, timers>>
    /\ UNCHANGED serverVars

\* submitFailed without the finally block
submitFailed_KeepsLoading(cause) ==
    /\ request = "pending"
    /\ error' = CASE cause = "network" -> MsgNetwork
                  [] cause = "body"    -> MsgBadBody
                  [] OTHER             -> MsgServer
    /\ request' = "none"
    /\ last' = [op |-> "submitFailed"]
    /\ UNCHANGED <<resumeFile, jobDescription, isLoading, results, resumeText,
                   appliedRewrites, highlightRange, timers>>
    /\ UNCHANGED serverVars

\* handleSubmit after the await: fetch rejected ("network"), the body is not
\* JSON ("body"), or the status is not OK ("status")
submitFailed(cause) ==
    /\ request = "pending"
    /\ error' = CASE cause = "network" -> MsgNetwork
                  [] cause = "body"    -> MsgBadBody
                  [] OTHER             -> MsgServer
    /\ isLoading' = FALSE
    /\ request' = "none"
    /\ last' = [op |-> "submitFailed"]
    /\ UNCHANGED <<resumeFile, jobDescription, results, resumeText,
                   appliedRewrites, highlightRange, timers>>
    /\ UNCHANGED serverVars

\* handleStartOver without setHighlightRange(null)
handleStartOver_KeepsHighlight ==
    /\ results # Null
    /\ results' = Null
    /\ error' = Null
    /\ resumeFile' = FALSE
    /\ jobDescription' = <<>>
    /\ resumeText' = <<>>
    /\ appliedRewrites' = {}
    /\ last' = [op |-> "startOver"]
    /\ UNCHANGED <<isLoading, request, timers, highlightRange>>
    /\ UNCHANGED serverVars

\* handleStartOver without setResumeText('')
handleStartOver_KeepsText ==
    /\ results # Null
    /\ results' = Null
    /\ error' = Null
    /\ resumeFile' = FALSE
    /\ jobDescription' = <<>>
    /\ appliedRewrites' = {}
    /\ highlightRange' = Null
    /\ last' = [op |-> "startOver"]
    /\ UNCHANGED <<isLoading, request, timers, resumeText>>
    /\ UNCHANGED serverVars

\* handleStartOver, the button is rendered when results
handleStartOver ==
    /\ results # Null
    /\ results' = Null
    /\ error' = Null
    /\ resumeFile' = FALSE
    /\ jobDescription' = <<>>
    /\ resumeText' = <<>>
    /\ appliedRewrites' = {}
    /\ highlightRange' = Null
    /\ last' = [op |-> "startOver"]
    /\ UNCHANGED <<isLoading, request, timers>>
    /\ UNCHANGED serverVars

\* ApplyEnabled with a button that is never disabled
ApplyEnabled_NeverDisabled(index) ==
    /\ results # Null
    /\ index \in RewriteIndices

\* the Apply button of rewrite i: rendered when results, disabled={isApplied}
ApplyEnabled(index) ==
    /\ results # Null
    /\ index \in RewriteIndices
    /\ index \notin appliedRewrites

\* Replace resuming one character after the end of the match
Replace_SkipsNext(text, pos, matchLen, suggested) ==
    Slice(text, 0, pos) \o suggested \o Slice(text, pos + matchLen + 1, Len(text))

\* line 651: resumeText.slice(0, pos) + suggested + resumeText.slice(pos + matchLen)
Replace(text, pos, matchLen, suggested) ==
    Slice(text, 0, pos) \o suggested \o Slice(text, pos + matchLen, Len(text))

\* HighlightOf ending at the length of the match in the old text's terms
HighlightOf_EndNotShifted(pos, suggested) == [start |-> pos, end |-> Len(suggested)]

\* line 656: { start: pos, end: pos + suggested.length }
HighlightOf(pos, suggested) == [start |-> pos, end |-> pos + Len(suggested)]

\* applyNotFound marking the rewrite as applied all the same
applyNotFound_MarksApplied(index) ==
    /\ error' = MsgNotFound
    /\ appliedRewrites' = appliedRewrites \cup {index}
    /\ UNCHANGED <<resumeText, highlightRange, timers>>

\* lines 646-649: no tier set pos
applyNotFound(index) ==
    /\ error' = MsgNotFound
    /\ UNCHANGED <<resumeText, appliedRewrites, highlightRange, timers>>

\* applyFound building the applied set anew instead of from the previous one
applyFound_ForgetsEarlier(index, loc, suggested) ==
    /\ timers < MaxTimers
    /\ resumeText' = Replace(resumeText, loc.pos, loc.matchLen, suggested)
    /\ appliedRewrites' = {index}
    /\ error' = Null
    /\ highlightRange' = HighlightOf(loc.pos, suggested)
    /\ timers' = timers + 1

\* lines 651-657: the replacement, the applied set, the highlight and its timer
applyFound(index, loc, suggested) ==
    /\ timers < MaxTimers
    /\ resumeText' = Replace(resumeText, loc.pos, loc.matchLen, suggested)
    /\ appliedRewrites' = appliedRewrites \cup {index}
    /\ error' = Null
    /\ highlightRange' = HighlightOf(loc.pos, suggested)
    /\ timers' = timers + 1

\* applyWithoutResults leaving a "not found" message behind
applyWithoutResults_SetsError ==
    /\ error' = MsgNotFound
    /\ last' = [op |-> "applyWithoutResults"]
    /\ UNCHANGED <<resumeText, appliedRewrites, highlightRange, timers>>

\* line 575: if (!results) return
applyWithoutResults ==
    /\ last' = [op |-> "applyWithoutResults"]
    /\ UNCHANGED <<error, resumeText, appliedRewrites, highlightRange, timers>>

\* applyWithResults giving up the search once a rewrite has been applied
applyWithResults_SkipsWhenApplied(index) ==
    /\ ApplyEnabled(index)
    /\ LET original  == At(results.rewrites, index).original
           suggested == At(results.rewrites, index).suggested
           loc       == IF appliedRewrites = {}
                        THEN Locate(resumeText, original)
                        ELSE [pos |-> -1, matchLen |-> Len(original), tier |-> 0]
       IN  /\ IF loc.pos = -1
              THEN applyNotFound(index)
              ELSE applyFound(index, loc, suggested)
           /\ last' = [op |-> "apply", index |-> index, text |-> resumeText,
                       original |-> original, suggested |-> suggested,
                       pos |-> loc.pos, matchLen |-> loc.matchLen]

\* applyWithResults searching the text as it was extracted, not the live text
applyWithResults_SearchesExtracted(index) ==
    /\ ApplyEnabled(index)
    /\ LET original  == At(results.rewrites, index).original
           suggested == At(results.rewrites, index).suggested
           loc       == Locate(results.resumeText, original)
       IN  /\ IF loc.pos = -1
              THEN applyNotFound(index)
              ELSE applyFound(index, loc, suggested)
           /\ last' = [op |-> "apply", index |-> index, text |-> resumeText,
                       original |-> original, suggested |-> suggested,
                       pos |-> loc.pos, matchLen |-> loc.matchLen]

\* lines 576-657: the search in the live text, then the outcome
applyWithResults(index) ==
    /\ ApplyEnabled(index)
    /\ LET original  == At(results.rewrites, index).original
           suggested == At(results.rewrites, index).suggested
           loc       == Locate(resumeText, original)
       IN  /\ IF loc.pos = -1
              THEN applyNotFound(index)
              ELSE applyFound(index, loc, suggested)
           /\ last' = [op |-> "apply", index |-> index, text |-> resumeText,
                       original |-> original, suggested |-> suggested,
                       pos |-> loc.pos, matchLen |-> loc.matchLen]

\* the indices handleApplyRewrite can be called with: those of the Apply
\* buttons; without results there is no rewrite for the index to name
CallIndices == IF results = Null THEN {0} ELSE RewriteIndices

\* handleApplyRewrite(index), lines 574-657
handleApplyRewrite(index) ==
    /\ IF results = Null
       THEN applyWithoutResults
       ELSE applyWithResults(index)
    /\ UNCHANGED <<resumeFile, jobDescription, isLoading, results, request>>
    /\ UNCHANGED serverVars

\* setTimeout(() => setHighlightRange(null), 1500) fires
highlightTimeout ==
    /\ timers > 0
    /\ timers' = timers - 1
    /\ highlightRange' = Null
    /\ last' = [op |-> "highlightTimeout"]
    /\ UNCHANGED <<resumeFile, jobDescription, isLoading, results, error,
                   resumeText, appliedRewrites, request>>
    /\ UNCHANGED serverVars

\* handleDownloadPDF writing the text it printed back in lower case
handleDownloadPDF_LowersText ==
    /\ results # Null
    /\ resumeText' = toLowerCase(resumeText)
    /\ last' = [op |-> "downloadPDF"]
    /\ UNCHANGED <<resumeFile, jobDescription, isLoading, results, error,
                   appliedRewrites, highlightRange, request, timers>>
    /\ UNCHANGED serverVars

\* handleDownloadPDF: hands resumeText to jsPDF, writes no state
handleDownloadPDF ==
    /\ results # Null
    /\ last' = [op |-> "downloadPDF"]
    /\ UNCHANGED <<resumeFile, jobDescription, isLoading, results, error,
                   resumeText, appliedRewrites, highlightRange, request, timers>>
    /\ UNCHANGED serverVars

----------------------------------------------------------------------------
(* The analyze endpoint of the server *)

maxRetries == 3      \* generateWithRetry(prompt, maxRetries = 3)
BackoffUnit == 5000  \* const delay = attempt * 5000

\* An error is [status, message]: status is err.status (NoStatus when the
\* error has none) and message is the set of those substrings the handler
\* looks for that err.message includes.
NoStatus == 0
Markers == {"SAFETY", "RESOURCE_EXHAUSTED", "429", "API_KEY_INVALID",
            "API key not valid"}
Includes(err, marker) == marker \in err.message

\* lines 76-79
isRateLimit(err) ==
    \/ err.status = 429
    \/ Includes(err, "RESOURCE_EXHAUSTED")
    \/ Includes(err, "429")

Status(code, body) == [status |-> code, body |-> body]

RespNoFile == Status(400, [error |-> "Resume PDF is required."])
RespNoJD   == Status(400, [error |-> "Job description is required."])
RespSafety ==
    Status(400, [error  |-> "Content was blocked by safety filters.",
                 detail |-> [text |-> "The input triggered Google's safety filters. Try rephrasing."]])
RespBusy ==
    Status(429, [error  |-> "The AI is a bit busy right now.",
                 detail |-> [text |-> "Please wait 30 seconds and try again. The free-tier has a limited number of requests per minute."]])
RespBadKey ==
    Status(401, [error  |-> "Invalid API key.",
                 detail |-> [text |-> "The GOOGLE_API_KEY in .env is missing or invalid."]])
RespFailed(err) ==
    Status(500, [error  |-> "Analysis failed.",
                 detail |-> [message |-> err.message]])
\* RespOk with the keys of the AI output spread after resumeText
RespOk_AiTextWins(aiOutput, pdfText) ==
    Status(200, [k \in DOMAIN aiOutput \cup {"resumeText"} |->
                    IF k \in DOMAIN aiOutput THEN aiOutput[k] ELSE pdfText])

\* line 118: res.json({ ...analysis, resumeText }), resumeText being pdfText
RespOk(aiOutput, pdfText) ==
    Status(200, [k \in DOMAIN aiOutput \cup {"resumeText"} |->
                    IF k = "resumeText" THEN pdfText ELSE aiOutput[k]])

\* errorResponse testing for the API key before the rate limit
errorResponse_KeyBeforeBusy(err) ==
    IF Includes(err, "SAFETY") THEN RespSafety
    ELSE IF Includes(err, "API_KEY_INVALID") \/ Includes(err, "API key not valid")
         THEN RespBadKey
    ELSE IF Includes(err, "RESOURCE_EXHAUSTED") \/ err.status = 429 THEN RespBusy
    ELSE RespFailed(err)

\* lines 119-143: the catch block of the handler
errorResponse(err) ==
    IF Includes(err, "SAFETY") THEN RespSafety
    ELSE IF Includes(err, "RESOURCE_EXHAUSTED") \/ err.status = 429 THEN RespBusy
    ELSE IF Includes(err, "API_KEY_INVALID") \/ Includes(err, "API key not valid")
         THEN RespBadKey
    ELSE RespFailed(err)

\* the handler sends response and ends
respond(response) ==
    /\ responses' = Append(responses, response)
    /\ srvPc' = "done"

\* postAnalyze looking at the job description before the file
postAnalyze_JobDescriptionFirst(file, field, value) ==
    /\ srvPc \in {"idle", "done"}
    /\ srvReq' = [file |-> file, field |-> field, jobDescription |-> value]
    /\ attempt' = 0
    /\ calls' = 0
    /\ delays' = <<>>
    /\ caught' = Null
    /\ recurring' = TRUE
    /\ extracted' = Null
    /\ analysis' = Null
    /\ IF ~field \/ value = <<>> \/ trim(value) = <<>>
       THEN /\ responses' = <<RespNoJD>>
            /\ srvPc' = "done"
            /\ pdfCalls' = 0
       ELSE IF ~file
       THEN /\ responses' = <<RespNoFile>>
            /\ srvPc' = "done"
            /\ pdfCalls' = 0
       ELSE /\ responses' = <<>>
            /\ srvPc' = "pdf"
            /\ pdfCalls' = 1
    /\ UNCHANGED clientVars

\* POST /api/analyze arrives, lines 99-110: validation, then the call of pdf()
postAnalyze(file, field, value) ==
    /\ srvPc \in {"idle", "done"}
    /\ srvReq' = [file |-> file, field |-> field, jobDescription |-> value]
    /\ attempt' = 0
    /\ calls' = 0
    /\ delays' = <<>>
    /\ caught' = Null
    /\ recurring' = TRUE
    /\ extracted' = Null
    /\ analysis' = Null
    /\ IF ~file
       THEN /\ responses' = <<RespNoFile>>
            /\ srvPc' = "done"
            /\ pdfCalls' = 0
       ELSE IF ~field \/ value = <<>> \/ trim(value) = <<>>
       THEN /\ responses' = <<RespNoJD>>
            /\ srvPc' = "done"
            /\ pdfCalls' = 0
       ELSE /\ responses' = <<>>
            /\ srvPc' = "pdf"
            /\ pdfCalls' = 1
    /\ UNCHANGED clientVars

\* await pdf(req.file.buffer) resolves, lines 110-113 and 71-73:
\* generateWithRetry starts and makes the first call of the model
pdfResolves(text) ==
    /\ srvPc = "pdf"
    /\ extracted' = [text |-> text]
    /\ attempt' = 1
    /\ calls' = calls + 1
    /\ srvPc' = "generate"
    /\ UNCHANGED <<srvReq, pdfCalls, delays, caught, recurring, analysis,
                   responses>>
    /\ UNCHANGED clientVars

\* await pdf(req.file.buffer) rejects with err: the catch block answers
pdfRejects(err) ==
    /\ srvPc = "pdf"
    /\ caught' = [at |-> "pdf", err |-> err]
    /\ respond(errorResponse(err))
    /\ UNCHANGED <<srvReq, attempt, calls, pdfCalls, delays, recurring, extracted,
                   analysis>>
    /\ UNCHANGED clientVars

\* await model.generateContent(prompt) resolves, lines 73-74 and 117-118:
\* generateWithRetry returns the result, the text of which is parsed: parsed
\* is [analysis], the value of JSON.parse, or [thrown], the error that
\* result.response.text() or JSON.parse threw
generateResolves(parsed) ==
    /\ srvPc = "generate"
    /\ IF "analysis" \in DOMAIN parsed
       THEN /\ analysis' = [value |-> parsed.analysis]
            /\ respond(RespOk(parsed.analysis, extracted.text))
            /\ UNCHANGED caught
       ELSE /\ caught' = [at |-> "parse", err |-> parsed.thrown]
            /\ respond(errorResponse(parsed.thrown))
            /\ UNCHANGED analysis
    /\ UNCHANGED <<srvReq, attempt, calls, pdfCalls, delays, recurring, extracted>>
    /\ UNCHANGED clientVars

\* retryOrThrow waiting before it throws the error of the last attempt
retryOrThrow_WaitsAtCap(err) ==
    IF isRateLimit(err) /\ attempt < maxRetries
    THEN /\ delays' = Append(delays, attempt * BackoffUnit)
         /\ srvPc' = "backoff"
         /\ UNCHANGED responses
    ELSE /\ delays' = IF isRateLimit(err)
                      THEN Append(delays, attempt * BackoffUnit) ELSE delays
         /\ respond(errorResponse(err))

\* retryOrThrow retrying whatever the error was
retryOrThrow_RetriesAll(err) ==
    IF attempt < maxRetries
    THEN /\ delays' = Append(delays, attempt * BackoffUnit)
         /\ srvPc' = "backoff"
         /\ UNCHANGED responses
    ELSE /\ UNCHANGED delays
         /\ respond(errorResponse(err))

\* lines 81-87: wait and go round again, or throw to the handler's catch
retryOrThrow(err) ==
    IF isRateLimit(err) /\ attempt < maxRetries
    THEN /\ delays' = Append(delays, attempt * BackoffUnit)
         /\ srvPc' = "backoff"
         /\ UNCHANGED responses
    ELSE /\ UNCHANGED delays
         /\ respond(errorResponse(err))

\* await model.generateContent(prompt) rejects with err, lines 75-88
generateRejects(err) ==
    /\ srvPc = "generate"
    /\ caught' = [at |-> "generate", err |-> err]
    /\ recurring' = (recurring /\ (caught = Null \/ caught.err = err))
    /\ retryOrThrow(err)
    /\ UNCHANGED <<srvReq, attempt, calls, pdfCalls, extracted, analysis>>
    /\ UNCHANGED clientVars

\* the timer of line 84 fires: `continue`, attempt++ and the next call
backoffDone ==
    /\ srvPc = "backoff"
    /\ attempt' = attempt + 1
    /\ calls' = calls + 1
    /\ srvPc' = "generate"
    /\ UNCHANGED <<srvReq, pdfCalls, delays, caught, recurring, extracted,
                   analysis, responses>>
    /\ UNCHANGED clientVars

----------------------------------------------------------------------------
(* Inputs *)

\* all strings over chars of length at most n
Strs(chars, n) == UNION {[1..k -> chars] : k \in 0..n}

\* exhaustive family: one letter in both cases and two kinds of whitespace
Alphabet == {"a", "A", SP, NL}
ShortTexts     == Strs(Alphabet, MaxTextLen)
ShortOriginals == Strs(Alphabet, MaxOrigLen)

\* word-built family: the words are the single letters a, b, c, ...
Word(i) == <<LowerChars[i]>>
RECURSIVE joinWith(_, _)
joinWith(words, sep) ==
    IF words = <<>> THEN <<>>
    ELSE IF Len(words) = 1 THEN words[1]
    ELSE words[1] \o sep \o joinWith(Tail(words), sep)
Phrase(k) == joinWith([i \in 1..k |-> Word(i)], <<SP>>)
LowerToUpper ==
    [c \in {LowerChars[i] : i \in 1..26} |->
        UpperChars[CHOOSE i \in 1..26 : LowerChars[i] = c]]
toUpperCase(s) == [i \in 1..Len(s) |->
                     IF s[i] \in DOMAIN LowerToUpper THEN LowerToUpper[s[i]] ELSE s[i]]
\* one line of a live text: the first k words as they are, after a word that
\* is not of the phrase, in capitals, or two spaces apart
PlainLines == {Phrase(k) : k \in 0..MaxLineWords}
Lines == PlainLines
         \cup {<<"x", SP>> \o Phrase(k) : k \in 0..MaxLineWords}
         \cup {toUpperCase(Phrase(k)) : k \in 0..MaxLineWords}
         \cup {joinWith([i \in 1..k |-> Word(i)], <<SP, SP>>) : k \in 0..MaxLineWords}
WordTexts == Lines \cup {l1 \o <<NL>> \o l2 : l1 \in Lines, l2 \in PlainLines}
\* an original: the first k words, or the same behind a leading space
WordOriginals == UNION {{Phrase(k), <<SP>> \o Phrase(k)} : k \in 1..MaxOrigWords}

\* live texts with runs of one to three whitespace characters after a word,
\* inside the text, at its end and at its start
TrailingRunTexts ==
    {<<"A", SP, "b">>, <<"A", SP, NL, "b">>, <<"A", SP, SP, SP, "b">>,
     <<"A", SP>>, <<"A", SP, SP>>, <<"A", NL, SP, SP>>,
     <<SP, SP, SP, "A">>, <<SP, "A", SP, SP, "b">>}

\* live texts with 'İ' before or after a three-word line
DottedTexts ==
    {<<IDOT, SP>> \o Phrase(3) \o <<NL, "x">>,
     <<IDOT, IDOT, IDOT, IDOT, IDOT, IDOT, IDOT, SP>> \o Phrase(3)
        \o <<NL, "x", SP, "y", SP, "z">>,
     Phrase(3) \o <<SP, IDOT, NL, "x">>}

Suggestions == {<<>>, <<"z", "z">>}

\* the end-to-end scenario of the specification
ScenarioText ==
    <<"M","a","n","a","g","e","d"," ","a"," ","t","e","a","m"," ","o","f"," ",
      "e","n","g","i","n","e","e","r","s",".",NL,
      "U","s","e","d"," ","P","y","t","h","o","n"," ","f","o","r"," ",
      "a","u","t","o","m","a","t","i","o","n",".">>
ScenarioOriginal ==
    <<"M","a","n","a","g","e","d"," ","a"," ","t","e","a","m"," ","o","f"," ",
      "e","n","g","i","n","e","e","r","s",".">>
ScenarioSuggested ==
    <<"L","e","d"," ","a"," ","t","e","a","m"," ","o","f"," ","8"," ",
      "e","n","g","i","n","e","e","r","s",","," ",
      "c","u","t","t","i","n","g"," ",
      "d","e","p","l","o","y","m","e","n","t"," ","t","i","m","e"," ",
      "b","y"," ","3","0","%",".">>
ScenarioExpected ==
    ScenarioSuggested \o <<NL,
      "U","s","e","d"," ","P","y","t","h","o","n"," ","f","o","r"," ",
      "a","u","t","o","m","a","t","i","o","n",".">>

Rewrite(o, s) == [original |-> o, suggested |-> s]
Response(text, rewrites) == [resumeText |-> text, rewrites |-> rewrites]

----------------------------------------------------------------------------
(* Specifications *)

\* the analyze handler before its first request
ServerIdle ==
    /\ srvPc = "idle"
    /\ srvReq = Null
    /\ attempt = 0
    /\ calls = 0
    /\ pdfCalls = 0
    /\ delays = <<>>
    /\ caught = Null
    /\ recurring = TRUE
    /\ extracted = Null
    /\ analysis = Null
    /\ responses = <<>>

\* the state of App after its first render
Init ==
    /\ resumeFile = FALSE
    /\ jobDescription = <<>>
    /\ isLoading = FALSE
    /\ results = Null
    /\ error = Null
    /\ resumeText = <<>>
    /\ appliedRewrites = {}
    /\ highlightRange = Null
    /\ request = "none"
    /\ timers = 0
    /\ last = [op |-> "init"]
    /\ ServerIdle

\* the state of App when the successful response `data` has been received
Submitted(data) ==
    /\ resumeFile = TRUE
    /\ jobDescription = <<"j">>
    /\ isLoading = FALSE
    /\ results = data
    /\ error = Null
    /\ resumeText = data.resumeText
    /\ appliedRewrites = {}
    /\ highlightRange = Null
    /\ request = "none"
    /\ timers = 0
    /\ last = [op |-> "submitOk"]
    /\ ServerIdle

\* the engine on its own: a session that has just received a response with
\* one rewrite
InitEngine ==
    \/ \E t \in ShortTexts, o \in ShortOriginals, s \in Suggestions :
          Submitted(Response(t, <<Rewrite(o, s)>>))
    \/ \E t \in WordTexts, o \in WordOriginals :
          Submitted(Response(t, <<Rewrite(o, <<"z", "z">>)>>))
    \/ \E t \in TrailingRunTexts, s \in Suggestions :
          Submitted(Response(t, <<Rewrite(<<"a">>, s)>>))
    \/ \E t \in DottedTexts, s \in Suggestions :
          Submitted(Response(t, <<Rewrite(Phrase(4), s)>>))
    \/ Submitted(Response(ScenarioText,
                          <<Rewrite(ScenarioOriginal, ScenarioSuggested)>>))

NextEngine ==
    \/ \E index \in RewriteIndices : handleApplyRewrite(index)
    \/ highlightTimeout

SpecEngine == InitEngine /\ [][NextEngine]_vars

\* the engine on a response with two rewrites, applied in either order
PairTexts     == Strs({"a", "c", "d"}, MaxPairLen)
PairRewrites  == {Rewrite(o, s) : o \in {<<"a">>, <<"c", "d">>},
                                  s \in {<<"c">>, <<"z">>}}
InitPairs ==
    \E t \in PairTexts, rwi \in PairRewrites, rwj \in PairRewrites :
        Submitted(Response(t, <<rwi, rwj>>))

SpecPairs == InitPairs /\ [][NextEngine]_vars

----------------------------------------------------------------------------
(* The whole session *)

\* the values the user gives the two inputs of the input card
Files == {"none", "pdf", "other"}
JobDescriptions == {<<>>, <<SP>>, <<"j">>}

\* the responses of a session: a short resume and NumRewrites rewrites, each
\* one of: a rewrite whose replacement holds its own original again, one
\* that matches exactly or after normalization, and one whose original is
\* nowhere in the text
SessionTexts == {<<"a", SP, "b">>, <<"A", NL, "b">>}
SessionRewrites ==
    {Rewrite(<<"a">>, <<"a", "a">>),
     Rewrite(<<"a", SP, "b">>, <<"z">>),
     Rewrite(<<"q">>, <<"z">>)}
SessionResponses ==
    {Response(t, rs) : t \in SessionTexts, rs \in [1..NumRewrites -> SessionRewrites]}

Next ==
    \/ \E file \in Files : handleFileSelect(file)
    \/ handleRemoveFile
    \/ \E value \in JobDescriptions : editJobDescription(value)
    \/ handleSubmit
    \/ \E data \in SessionResponses : submitOk(data)
    \/ \E cause \in {"network", "body", "status"} : submitFailed(cause)
    \/ handleStartOver
    \/ \E index \in CallIndices : handleApplyRewrite(index)
    \/ highlightTimeout
    \/ handleDownloadPDF

Spec == Init /\ [][Next]_vars

----------------------------------------------------------------------------
(* The analyze endpoint on its own, and the submission path *)

\* the errors a collaborator can throw: every status the handler tells
\* apart, with every combination of the substrings it looks for
Statuses == {NoStatus, 400, 429}
Errors == [status : Statuses, message : SUBSET Markers]

\* the multipart bodies: with or without a file, without the jobDescription
\* field or with one of the values the input card can hold
Bodies ==
    {[file |-> f, field |-> FALSE, jobDescription |-> <<>>] : f \in BOOLEAN}
    \cup {[file |-> f, field |-> TRUE, jobDescription |-> v] :
             f \in BOOLEAN, v \in JobDescriptions}

\* the steps of the endpoint, its collaborators throwing the errors of errs
\* the texts pdf() extracts, and the values JSON.parse gives for the text
\* of the AI: an object without or with a resumeText key of its own
PdfTexts == {"", "text of the pdf"}
AiOutputs == {[score |-> 72, summary |-> "fair"],
              [score |-> 72, summary |-> "fair", resumeText |-> "text of the ai"]}

\* what the parsing of a result can come to
Parsed(errs) ==
    {[analysis |-> a] : a \in AiOutputs} \cup {[thrown |-> err] : err \in errs}

ServerNext(errs) ==
    \/ \E b \in Bodies : postAnalyze(b.file, b.field, b.jobDescription)
    \/ \E text \in PdfTexts : pdfResolves(text)
    \/ \E err \in errs : pdfRejects(err)
    \/ \E parsed \in Parsed(errs) : generateResolves(parsed)
    \/ \E err \in errs : generateRejects(err)
    \/ backoffDone

NextServer == ServerNext(Errors)

\* every await of the handler settles: pdf(), model.generateContent() and
\* the timer of the backoff
ServerFairness ==
    /\ WF_vars(\/ \E text \in PdfTexts : pdfResolves(text)
               \/ \E err \in Errors : pdfRejects(err))
    /\ WF_vars(\/ \E parsed \in Parsed(Errors) : generateResolves(parsed)
               \/ \E err \in Errors : generateRejects(err))
    /\ WF_vars(backoffDone)

SpecServer == Init /\ [][NextServer]_vars /\ ServerFairness

\* the submission path: the input card of the client beside the endpoint,
\* with one error of each kind the retry loop tells apart
SubmitErrors ==
    {[status |-> 429, message |-> {}],
     [status |-> NoStatus, message |-> {}]}

NextSubmit ==
    \/ \E file \in Files : handleFileSelect(file)
    \/ handleRemoveFile
    \/ \E value \in JobDescriptions : editJobDescription(value)
    \/ handleSubmit
    \/ \E cause \in {"network", "body", "status"} : submitFailed(cause)
    \/ ServerNext(SubmitErrors)

SpecSubmit == Init /\ [][NextSubmit]_vars

\* the submission of the client on its own: the awaited request settles in
\* one of the ways handleSubmit tells apart
settle ==
    \/ \E data \in SessionResponses : submitOk(data)
    \/ \E cause \in {"network", "body", "status"} : submitFailed(cause)

NextSubmission ==
    \/ \E file \in Files : handleFileSelect(file)
    \/ handleRemoveFile
    \/ \E value \in JobDescriptions : editJobDescription(value)
    \/ handleSubmit
    \/ settle
    \/ handleStartOver

\* a pending request settles in the end
SpecSubmission == Init /\ [][NextSubmission]_vars /\ WF_vars(settle)

----------------------------------------------------------------------------
(* Properties of the reconciliation engine *)

\* sub occurs somewhere in s
Contains(s, sub) == \E i \in 0..Len(s) : OccursAt(s, sub, i)

\* the offset of the first occurrence of sub in s
FirstOcc(s, sub) ==
    CHOOSE i \in 0..Len(s) :
        /\ OccursAt(s, sub, i)
        /\ \A j \in 0..(i - 1) : ~OccursAt(s, sub, j)

\* the words of s: its maximal runs of non-whitespace characters
RECURSIVE WordsOf(_)
WordsOf(s) ==
    LET t == TrimStart(s)
    IN  IF t = <<>> THEN <<>>
        ELSE LET n == CHOOSE k \in 1..Len(t) :
                        /\ \A m \in 1..k : ~IsWs(t[m])
                        /\ (k = Len(t) \/ IsWs(t[k + 1]))
             IN  <<SubSeq(t, 1, n)>> \o WordsOf(SubSeq(t, n + 1, Len(t)))

\* the first n words of s (all of them when s has fewer) joined by single
\* spaces, in lower case
PrefixWords(s, n) ==
    LET w == WordsOf(s)
    IN  toLowerCase(joinWith(SubSeq(w, 1, Min(n, Len(w))), <<SP>>))

\* an apply has just run
Applied == last.op = "apply"
\* ... and found a range
AppliedFound == Applied /\ last.pos # -1

\* the part of the old text that the last apply replaced
ReplacedPart == SubSeq(last.text, last.pos + 1, last.pos + last.matchLen)

\* C1: when the live text contains `original` verbatim, the apply succeeds
\* with the range of the first occurrence, of length len(original), and the
\* new text is the old one with that occurrence replaced by `suggested`,
\* every character before and after it unchanged.
C1_ExactTier ==
    (Applied /\ Contains(last.text, last.original)) =>
        LET p == FirstOcc(last.text, last.original)
        IN  /\ last.pos = p
            /\ last.matchLen = Len(last.original)
            /\ resumeText = SubSeq(last.text, 1, p) \o last.suggested
                            \o SubSeq(last.text, p + Len(last.original) + 1,
                                      Len(last.text))

\* an exact match with a second occurrence after the first, text on both
\* sides of the replaced occurrence, and a non-empty replacement
C1_Witness ==
    /\ Applied
    /\ last.original # <<>>
    /\ last.suggested # <<>>
    /\ Contains(last.text, last.original)
    /\ last.pos > 0
    /\ \E j \in (last.pos + 1)..Len(last.text) :
          OccursAt(last.text, last.original, j)
    /\ resumeText # last.text

\* C2: when tier 1 fails and the non-empty normalized original occurs in the
\* normalized live text, the apply succeeds and the text it replaces
\* normalizes to the normalized original, for every live text.
C2_NormalizedRange ==
    (/\ Applied
     /\ ~Contains(last.text, last.original)
     /\ normalize(last.original) # <<>>
     /\ Contains(normalize(last.text), normalize(last.original)))
    => (last.pos # -1 /\ normalize(ReplacedPart) = normalize(last.original))

\* tiers 1 and 2 produced no range for the last apply
Tier3Reached ==
    /\ Applied
    /\ ~Contains(last.text, last.original)
    /\ Tier2(last.text, last.original).pos = -1

\* the fragment lengths of `original` whose fragment occurs in the live text
MatchingLengths(text, original) ==
    {n \in 3..Min(Len(WordsOf(original)), 8) :
        Contains(toLowerCase(text), PrefixWords(original, n))}

SetMax(S) == CHOOSE n \in S : \A m \in S : m <= n

\* C3: when tiers 1 and 2 produce no range, the fragment of the first N words
\* of `original`, for the largest N from min(word count, 8) down to 3 whose
\* fragment occurs in the live text (case-insensitively), gives the match
\* start at its first occurrence; if no such N exists, in particular when
\* `original` has fewer than 3 words, the apply is NotFound.
C3_FragmentChoice ==
    Tier3Reached =>
        LET ns == MatchingLengths(last.text, last.original)
        IN  IF ns = {}
            THEN last.pos = -1
            ELSE last.pos = FirstOcc(toLowerCase(last.text),
                                     PrefixWords(last.original, SetMax(ns)))

\* tier 3 set the range of the last apply
Tier3Matched == Tier3Reached /\ last.pos # -1

\* the end of the line that holds offset p: the first newline at or after p,
\* or the length of the text
LineEnd(text, p) ==
    CHOOSE q \in p..Len(text) :
        /\ (q = Len(text) \/ text[q + 1] = NL)
        /\ \A k \in p..(q - 1) : text[k + 1] # NL

\* C4: when tier 3 matches at offset p, the replaced range is [p, q) with q
\* the first newline at or after p, or the length of the text: the text
\* before p and the newline with all that follows it are kept.
C4_FragmentExtent ==
    Tier3Matched =>
        LET q == LineEnd(last.text, last.pos)
        IN  /\ last.matchLen = q - last.pos
            /\ resumeText = SubSeq(last.text, 1, last.pos) \o last.suggested
                            \o SubSeq(last.text, q + 1, Len(last.text))

\* a 10-word original whose first 5 words only occur in the live text, after
\* other text of their line and right before a newline
C4_Witness ==
    /\ Tier3Matched
    /\ Len(WordsOf(last.original)) = 10
    /\ MatchingLengths(last.text, last.original) = {3, 4, 5}
    /\ last.pos > 0
    /\ last.matchLen = Len(PrefixWords(last.original, 5))
    /\ last.pos + last.matchLen < Len(last.text)
    /\ last.text[last.pos + last.matchLen + 1] = NL

\* C5: the tiers run in order and the first that yields a range decides:
\* a verbatim occurrence always gives the range of its first occurrence with
\* length len(original); tier 2 decides only when there is none, tier 3 only
\* when tier 2 gave no range either.
C5_TierPrecedence ==
    Applied =>
        IF Contains(last.text, last.original)
        THEN /\ last.pos = FirstOcc(last.text, last.original)
             /\ last.matchLen = Len(last.original)
        ELSE IF Tier2(last.text, last.original).pos # -1
        THEN /\ last.pos = Tier2(last.text, last.original).pos
             /\ last.matchLen = Tier2(last.text, last.original).matchLen
        ELSE last.pos = Tier3(last.text, last.original).pos

\* a verbatim occurrence chosen although both looser tiers would match at an
\* earlier offset
C5_Witness ==
    /\ Applied
    /\ Contains(last.text, last.original)
    /\ Tier2(last.text, last.original).pos # -1
    /\ Tier2(last.text, last.original).pos < last.pos
    /\ Tier3(last.text, last.original).pos # -1
    /\ Tier3(last.text, last.original).pos < last.pos

\* C6: on a successful apply with range [start, end) of the old text, the
\* new text is old[0:start] ++ suggested ++ old[end:], and the highlight
\* range is {start, start + len(suggested)}, which holds `suggested` in the
\* new text.
C6_ReplacementAndRange ==
    AppliedFound =>
        /\ resumeText = SubSeq(last.text, 1, last.pos) \o last.suggested
                        \o SubSeq(last.text, last.pos + last.matchLen + 1,
                                  Len(last.text))
        /\ highlightRange = [start |-> last.pos,
                             end   |-> last.pos + Len(last.suggested)]
        /\ SubSeq(resumeText, highlightRange.start + 1, highlightRange.end)
             = last.suggested

\* a replacement in the middle of the text by a text of another length
C6_Witness ==
    /\ AppliedFound
    /\ last.pos > 0
    /\ last.pos + last.matchLen < Len(last.text)
    /\ last.suggested # <<>>
    /\ Len(last.suggested) # last.matchLen

\* the apply of the end-to-end scenario has run
ScenarioApplied ==
    /\ Applied
    /\ last.text = ScenarioText
    /\ last.original = ScenarioOriginal
    /\ last.suggested = ScenarioSuggested

\* C7 as stated: the scenario yields the expected text and the range {0, 60}
C7_ScenarioRange60 ==
    ScenarioApplied =>
        /\ resumeText = ScenarioExpected
        /\ highlightRange = [start |-> 0, end |-> 60]

\* C7: the scenario yields the expected text and the range {0, 58}, 58
\* being the length of the suggested text
C7_Scenario ==
    ScenarioApplied =>
        /\ resumeText = ScenarioExpected
        /\ highlightRange = [start |-> 0, end |-> 58]
        /\ Len(ScenarioSuggested) = 58

C7_Witness == ScenarioApplied /\ highlightRange # Null

\* C9: when the first three words of `original` (all of them when there
\* are fewer) do not occur consecutively in the live text, compared in lower
\* case with whitespace runs as one space, the apply is NotFound and the
\* live text is unchanged.
C9_NoSharedPrefix ==
    (Applied /\ ~Contains(normalize(last.text), PrefixWords(last.original, 3)))
    => (last.pos = -1 /\ resumeText = last.text)

----------------------------------------------------------------------------
(* Properties of the session *)

\* the step is an apply that found no range
NotFoundStep == last' # last /\ last'.op = "apply" /\ last'.pos = -1

\* rewrite j could be applied to the current text with success
Applicable(j) ==
    /\ j \in RewriteIndices \ appliedRewrites
    /\ Locate(resumeText, At(results.rewrites, j).original).pos # -1

\* C8: an apply that finds no range leaves resumeText, appliedRewrites,
\* highlightRange and results as they were and sets the not-found message;
\* an apply of another index that follows it and locates its original
\* succeeds as usual.
C8_NotFoundNoOp ==
    [][/\ NotFoundStep =>
            /\ resumeText' = resumeText
            /\ appliedRewrites' = appliedRewrites
            /\ highlightRange' = highlightRange
            /\ results' = results
            /\ error' = MsgNotFound
       /\ (/\ Applied /\ last.pos = -1
           /\ last' # last /\ last'.op = "apply" /\ last'.pos # -1) =>
            /\ last'.index # last.index
            /\ appliedRewrites' = appliedRewrites \cup {last'.index}
            /\ resumeText' = SubSeq(resumeText, 1, last'.pos) \o last'.suggested
                             \o SubSeq(resumeText, last'.pos + last'.matchLen + 1,
                                       Len(resumeText))
            /\ error' = Null]_vars

\* a not-found apply after a successful one whose highlight still shows,
\* with a third rewrite whose Apply button still works
C8_Witness ==
    /\ Applied
    /\ last.pos = -1
    /\ error = MsgNotFound
    /\ appliedRewrites # {}
    /\ highlightRange # Null
    /\ \E j \in RewriteIndices :
          /\ j # last.index
          /\ Applicable(j)
          /\ ENABLED handleApplyRewrite(j)

\* C10: once index i is in appliedRewrites no apply of i runs, so the live
\* text changes at most once for i: every apply step is for an index that
\* was not applied before it.
C10_IdempotenceGuard ==
    [][(last' # last /\ last'.op = "apply")
          => last'.index \notin appliedRewrites]_vars

\* an applied rewrite whose original is again in the live text, so that a
\* second apply of it would change the text once more
C10_Witness ==
    \E i \in appliedRewrites :
        /\ Locate(resumeText, At(results.rewrites, i).original).pos # -1
        /\ Replace(resumeText,
                   Locate(resumeText, At(results.rewrites, i).original).pos,
                   Locate(resumeText, At(results.rewrites, i).original).matchLen,
                   At(results.rewrites, i).suggested) # resumeText

----------------------------------------------------------------------------
(* Properties of the session state *)

\* the step ran handler op
Ran(op) == last' # last /\ last'.op = op

\* the step is an apply that replaced a range
FoundStep == Ran("apply") /\ last'.pos # -1

\* one locate-and-replace step on text: whether a range was found and the
\* text it leaves
LocateAndReplace(text, rw) ==
    LET loc == Locate(text, rw.original)
    IN  IF loc.pos = -1
        THEN [found |-> FALSE, text |-> text]
        ELSE [found |-> TRUE,
              text  |-> Replace(text, loc.pos, loc.matchLen, rw.suggested)]

\* the orders in which the indices of S can have been applied
Orders(S) ==
    {ord \in [1..Cardinality(S) -> S] :
        \A a, b \in 1..Cardinality(S) : ord[a] = ord[b] => a = b}

\* LocateAndReplace folded over the indices of ord, from text; found when
\* every step found its range
RECURSIVE FoldApplies(_, _, _)
FoldApplies(text, rewrites, ord) ==
    IF ord = <<>> THEN [found |-> TRUE, text |-> text]
    ELSE LET step == LocateAndReplace(text, At(rewrites, Head(ord)))
         IN  IF step.found
             THEN FoldApplies(step.text, rewrites, Tail(ord))
             ELSE [found |-> FALSE, text |-> text]

\* the live text is the extracted text after the applied rewrites, each
\* applied to the result of those before it, in some order
IsFoldOfApplied ==
    results # Null =>
        \E ord \in Orders(appliedRewrites) :
            FoldApplies(results.resumeText, results.rewrites, ord)
                = [found |-> TRUE, text |-> resumeText]

\* C11: every apply searches and rewrites the text that was live when it ran
\* (last.text), and after any sequence of successful applies resumeText is
\* the fold of the locate-and-replace step over that sequence, from the
\* extracted text.
C11_AppliesCompound ==
    /\ Applied =>
          resumeText = LocateAndReplace(last.text,
                                        At(results.rewrites, last.index)).text
    /\ IsFoldOfApplied

\* two applies, the second of which found a range in the current text that
\* is not the range the extracted text has for it
C11_Witness ==
    /\ AppliedFound
    /\ Cardinality(appliedRewrites) >= 2
    /\ LET here == Locate(last.text, last.original)
           then == Locate(results.resumeText, last.original)
       IN  here.pos # then.pos \/ here.matchLen # then.matchLen

\* C12: appliedRewrites only grows between resets: an apply of i that finds
\* its range adds i and nothing else, an apply that finds none adds
\* nothing, and every other change of the set is Start Over or the start of
\* a submission emptying it.
C12_AppliedMonotone ==
    [][/\ FoundStep => /\ last'.index \notin appliedRewrites
                       /\ appliedRewrites' = appliedRewrites \cup {last'.index}
       /\ NotFoundStep => appliedRewrites' = appliedRewrites
       /\ (appliedRewrites' # appliedRewrites /\ ~Ran("apply")) =>
            /\ appliedRewrites' = {}
            /\ Ran("startOver") \/ Ran("submit")
       /\ ~(Ran("startOver") \/ Ran("submit")) =>
            appliedRewrites \subseteq appliedRewrites']_vars

\* all rewrites but one applied, after an apply that found nothing
C12_Witness ==
    /\ Applied
    /\ last.pos = -1
    /\ Cardinality(appliedRewrites) = NumRewrites - 1

\* C13: resumeText changes only on a successful submission (to the extracted
\* text), on an apply that found its range, and on a session reset; no other
\* handler writes it.
C13_SingleWriter ==
    [][/\ resumeText' # resumeText =>
            \/ Ran("submitOk") /\ resumeText' = results'.resumeText
            \/ FoundStep
            \/ (Ran("startOver") \/ Ran("submit")) /\ resumeText' = <<>>
       /\ (\/ NotFoundStep
           \/ Ran("highlightTimeout")
           \/ Ran("downloadPDF")
           \/ Ran("fileSelect")
           \/ Ran("removeFile")
           \/ Ran("editJobDescription")) => resumeText' = resumeText]_vars

\* the highlight timer of an apply has run out and the rewritten text is
\* still there
C13_Witness ==
    /\ last.op = "highlightTimeout"
    /\ results # Null
    /\ resumeText # results.resumeText

\* the four parts of the session state are in their cleared state
SessionCleared ==
    /\ results = Null
    /\ resumeText = <<>>
    /\ appliedRewrites = {}
    /\ highlightRange = Null

\* C14: while results is null, resumeText is empty, appliedRewrites is
\* empty and highlightRange is null; a successful submission sets results
\* and resumeText together and Start Over clears all four together.
C14_SharedLifecycle ==
    [][/\ results = Null => SessionCleared
       /\ results' = Null => SessionCleared'
       /\ Ran("submitOk") => /\ results' # Null
                             /\ resumeText' = results'.resumeText
       /\ Ran("startOver") => SessionCleared']_vars

\* Start Over has just cleared a session that had applied rewrites while
\* the highlight timer of the last one is still pending
C14_Witness ==
    /\ last.op = "startOver"
    /\ SessionCleared
    /\ timers > 0

\* C15: an apply while results is null changes no state, and every apply
\* that takes effect runs with results present and no submission pending.
C15_NoApplyBeforeSession ==
    [][/\ Ran("applyWithoutResults") =>
            UNCHANGED <<resumeFile, jobDescription, isLoading, results, error,
                        resumeText, appliedRewrites, highlightRange, request,
                        timers>>
       /\ results = Null => ~Ran("apply")
       /\ request = "pending" => ~Ran("apply")
       /\ Ran("apply") => results # Null /\ request = "none"]_vars

\* handleApplyRewrite has run while a submission was pending
C15_Witness ==
    /\ last.op = "applyWithoutResults"
    /\ request = "pending"
    /\ isLoading

\* C16: a submission that fails leaves results null, resumeText empty,
\* appliedRewrites empty and highlightRange null; it sets the error message
\* and ends the loading state, and nothing else.
C16_FailedSubmission ==
    [][Ran("submitFailed") =>
            /\ SessionCleared'
            /\ error' # Null
            /\ isLoading' = FALSE
            /\ UNCHANGED <<resumeFile, jobDescription, results, resumeText,
                           appliedRewrites, highlightRange, timers>>]_vars

\* a submission has failed after an earlier session in which a rewrite was
\* applied
C16_Witness ==
    /\ last.op = "submitFailed"
    /\ error # Null
    /\ SessionCleared
    /\ timers > 0

----------------------------------------------------------------------------
(* Properties of the submission path and of the analyze endpoint *)

\* s is empty or holds whitespace only
Blank(s) == \A i \in 1..Len(s) : IsWs(s[i])

\* the request carries no file, or no job description worth the name
InvalidRequest(req) == ~req.file \/ ~req.field \/ Blank(req.jobDescription)

\* the step is the arrival of a request at the endpoint
PostStep == srvPc \in {"idle", "done"} /\ serverVars' # serverVars

\* C17: with no resume file or a blank job description the client sets an
\* error and sends no request (isLoading stays false), and the server
\* answers 400 without a call of pdf() or of the model; on both sides the
\* missing file is reported before the missing job description.
C17_ValidationFirst ==
    [][/\ (Ran("submit") /\ (~resumeFile \/ Blank(jobDescription))) =>
            /\ error' = IF ~resumeFile THEN MsgNoFile ELSE MsgNoJD
            /\ isLoading' = FALSE /\ isLoading = FALSE
            /\ request' = "none" /\ request = "none"
       /\ (PostStep /\ InvalidRequest(srvReq')) =>
            /\ responses' = <<IF ~srvReq'.file THEN RespNoFile ELSE RespNoJD>>
            /\ srvPc' = "done"
            /\ pdfCalls' = 0
            /\ calls' = 0
       /\ (pdfCalls' > 0 \/ calls' > 0) => ~InvalidRequest(srvReq')]_vars

\* both sides have just refused a submission that lacks the file and the
\* job description, each naming the file
C17_Witness ==
    /\ last.op = "submit"
    /\ ~resumeFile
    /\ Blank(jobDescription)
    /\ error = MsgNoFile
    /\ ~isLoading
    /\ srvPc = "done"
    /\ ~srvReq.file
    /\ srvReq.field /\ srvReq.jobDescription = <<SP>>
    /\ responses = <<RespNoFile>>

\* the responses end with a success
SentOk(rs) == rs # <<>> /\ rs[Len(rs)].status = 200

\* the step settles a call of the model
SettleStep == srvPc = "generate" /\ srvPc' # "generate"

\* the step settles a call of the model with a failure, which caught' holds
FailureStep == SettleStep /\ ~SentOk(responses')

\* C18: generateWithRetry calls the model at most maxRetries times; a
\* further attempt follows a rate-limit failure only, after a wait of
\* attempt x 5000 ms; a success ends it without a further call; the failure
\* of the last allowed attempt is thrown without a wait; and it always
\* terminates.
C18_RetryPolicy ==
    /\ [][/\ calls' <= maxRetries
          /\ calls' > calls =>
                \/ calls = 0 /\ calls' = 1 /\ delays' = <<>>
                \/ /\ calls' = calls + 1
                   /\ srvPc = "backoff"
                   /\ caught.at = "generate" /\ isRateLimit(caught.err)
                   /\ Len(delays) = calls
                   /\ delays[calls] = calls * 5000
          /\ (SettleStep /\ srvPc' = "backoff") =>
                /\ isRateLimit(caught'.err)
                /\ attempt < maxRetries
                /\ delays' = Append(delays, attempt * 5000)
          /\ (SettleStep /\ ~FailureStep) =>
                /\ srvPc' = "done" /\ calls' = calls /\ delays' = delays
          /\ (FailureStep /\ attempt = maxRetries) =>
                /\ srvPc' = "done" /\ calls' = calls /\ delays' = delays
                /\ responses' = <<errorResponse(caught'.err)>>]_vars
    /\ (srvPc \in {"generate", "backoff"}) ~> (srvPc = "done")

\* three calls were made, the waits were 5 s and 10 s, and the third failure
\* was answered
C18_Witness ==
    /\ srvPc = "done"
    /\ calls = maxRetries
    /\ delays = <<5000, 10000>>
    /\ caught # Null /\ caught.at = "generate"
    /\ Len(responses) = 1 /\ ~SentOk(responses)

\* the cause of a failure, for errors that bear the mark of one cause only
Cause(c) ==
    LET safety     == Includes(c.err, "SAFETY")
        credential == \/ Includes(c.err, "API_KEY_INVALID")
                      \/ Includes(c.err, "API key not valid")
        rateLimit  == isRateLimit(c.err)
    IN  CASE safety /\ ~credential /\ ~rateLimit -> "safety"
          [] credential /\ ~safety /\ ~rateLimit -> "credential"
          [] rateLimit /\ ~safety /\ ~credential -> "rateLimit"
          [] /\ c.at = "parse" /\ ~safety /\ ~credential /\ ~rateLimit
             /\ c.err.status = NoStatus         -> "malformed"
          [] OTHER                              -> "other"

TerminalCauses == {"safety", "credential", "malformed"}

\* the response the handler gives for a cause
CauseResponse(c) ==
    CASE Cause(c) = "safety"     -> RespSafety
      [] Cause(c) = "credential" -> RespBadKey
      [] Cause(c) = "rateLimit"  -> RespBusy
      [] Cause(c) = "malformed"  -> RespFailed(c.err)

Exhausted ==
    /\ srvPc = "done"
    /\ calls = maxRetries
    /\ caught # Null /\ caught.at = "generate"
    /\ ~SentOk(responses)

\* C20 as stated: when an error that the retry loop classifies as a rate
\* limit recurs on every attempt until the cap is exhausted, the handler
\* answers 429 with the wait-and-try-again message.
C20_ExhaustionAnswers429 ==
    (/\ Exhausted
     /\ recurring
     /\ isRateLimit(caught.err)) => responses = <<RespBusy>>

----------------------------------------------------------------------------
(* Further properties of the endpoint, the engine and the session *)

\* the status the catch block is to give an error, test by test
MappedStatus(err) ==
    IF "SAFETY" \in err.message THEN 400
    ELSE IF "RESOURCE_EXHAUSTED" \in err.message \/ err.status = 429 THEN 429
    ELSE IF "API_KEY_INVALID" \in err.message \/ "API key not valid" \in err.message
         THEN 401
    ELSE 500

\* the step ends the request with the answer to an error
ErrorStep == srvPc \in {"pdf", "generate"} /\ srvPc' = "done" /\ ~SentOk(responses')

\* C21: every request gets exactly one response; a thrown error is answered
\* 400 when its message contains 'SAFETY', else 429 when it contains
\* 'RESOURCE_EXHAUSTED' or its status is 429, else 401 when it contains
\* 'API_KEY_INVALID' or 'API key not valid', else 500 'Analysis failed.';
\* a success is sent only by a step in which nothing was thrown.
C21_ErrorMapping ==
    /\ [][/\ Len(responses') = IF srvPc' = "done" THEN 1 ELSE 0
          /\ ErrorStep =>
                /\ caught' # Null
                /\ responses'[1].status = MappedStatus(caught'.err)
                /\ responses'[1].status = 500 =>
                      responses'[1].body = [error  |-> "Analysis failed.",
                                            detail |-> [message |-> caught'.err.message]]
          /\ (SentOk(responses') /\ srvPc # "done") =>
                /\ srvPc = "generate"
                /\ caught' = caught
                /\ analysis' # Null]_vars
    /\ (srvPc \in {"pdf", "generate", "backoff"}) ~> (srvPc = "done")

\* an error bearing every mark and the status 429 was thrown by the last
\* allowed call and answered as a safety rejection
C21_Witness ==
    /\ Exhausted
    /\ caught.err = [status |-> 429, message |-> Markers]
    /\ responses[1].status = 400
    /\ Len(responses) = 1

Outcome(text, original, suggested) ==
    LET loc == Locate(text, original)
    IN  IF loc.pos = -1
        THEN [found |-> FALSE, text |-> text, range |-> Null]
        ELSE [found |-> TRUE,
              text  |-> Replace(text, loc.pos, loc.matchLen, suggested),
              range |-> HighlightOf(loc.pos, suggested)]

\* C22: the outcome of an apply (found or not, the new text, the match range)
\* is a function of the live text, the original and the suggested text only:
\* whatever appliedRewrites, highlightRange, error and the index are, the
\* step leaves what Outcome gives for these three values.
C22_ApplyIsPure ==
    [][Ran("apply") =>
          LET rw  == At(results.rewrites, last'.index)
              out == Outcome(resumeText, rw.original, rw.suggested)
          IN  /\ (last'.pos # -1) = out.found
              /\ (error' = MsgNotFound) = ~out.found
              /\ resumeText' = out.text
              /\ out.found => highlightRange' = out.range]_vars

\* an apply found its range while another rewrite was already applied and
\* the highlight of that one was still pending
C22_Witness ==
    /\ AppliedFound
    /\ appliedRewrites \ {last.index} # {}
    /\ timers = MaxTimers
    /\ highlightRange = HighlightOf(last.pos, last.suggested)

\* tier 1 produced no range for the last apply and tier 2 produced one
Tier2Matched ==
    /\ Applied
    /\ ~Contains(last.text, last.original)
    /\ Tier2(last.text, last.original).pos # -1

\* C23: the range [p, q) of a tier-2 match takes in the whitespace that
\* follows the matched passage up to its last character: no two whitespace
\* characters follow q, and a range that ends in folded whitespace stops
\* inside the run, before a whitespace character, so short of the next
\* non-whitespace character and of the end of the text.
C23_TrailingFold ==
    Tier2Matched =>
        LET text == last.text
            p    == last.pos
            q    == last.pos + last.matchLen
        IN  /\ ~(q + 1 < Len(text) /\ IsWs(At(text, q)) /\ IsWs(At(text, q + 1)))
            /\ (/\ q > p
                /\ IsWs(At(text, q - 1))
                /\ \E i \in p..(q - 1) : ~IsWs(At(text, i)))
               => (q < Len(text) /\ IsWs(At(text, q)))

\* C24: the highlight a successful apply sets stays until the timer of that
\* apply fires: a timer clears a highlight only when it is the last one
\* pending, the one started by the apply that set the highlight, and never
\* while the timer of a later apply is still to come.
C24_HighlightInterval ==
    [][/\ FoundStep => highlightRange' # Null /\ timers' = timers + 1
       /\ (Ran("highlightTimeout") /\ highlightRange # Null) => timers = 1]_vars

\* highlightRange lies inside text
InRange(range, text) == 0 <= range.start /\ range.start <= range.end /\ range.end <= Len(text)

\* C25: a non-null highlightRange satisfies 0 <= start <= end <=
\* len(resumeText) and resumeText[start:end] is the suggested text of the most
\* recently applied rewrite: the apply that sets the range leaves that text
\* under it, and as long as the range stays non-null no other step changes
\* the range or the live text.
C25_HighlightValid ==
    /\ [](highlightRange # Null => InRange(highlightRange, resumeText))
    /\ [][highlightRange' # Null =>
             IF FoundStep
             THEN /\ InRange(highlightRange', resumeText')
                  /\ Slice(resumeText', highlightRange'.start, highlightRange'.end)
                        = last'.suggested
             ELSE /\ highlightRange' = highlightRange
                  /\ resumeText' = resumeText]_vars

\* the highlight of an earlier apply is still shown after an apply that found
\* no range, the live text having been changed twice
C25_Witness ==
    /\ highlightRange # Null
    /\ Applied /\ last.pos = -1
    /\ Cardinality(appliedRewrites) >= 2
    /\ highlightRange.end > highlightRange.start

\* the fragment tier 3 matched: the longest of the fragments the loop tries
\* whose lower case occurs in the lower-cased text
FragmentMatched(text, original) ==
    LET words == split(original)
        lens  == {n \in MinFragWords..Min(Len(words), MaxFragWords) :
                     Contains(toLowerCase(text), toLowerCase(Fragment(words, n)))}
    IN  Fragment(words, SetMax(lens))

\* C26: when tier 3 matches, the replaced range [p, q) begins where the
\* fragment is in the live text, does not end inside it (q >= p +
\* len(fragment)) and holds no newline, so only the line of the fragment
\* is altered.
C26_FragmentLine ==
    Tier3Matched =>
        LET text == last.text
            p    == last.pos
            q    == last.pos + last.matchLen
            frag == FragmentMatched(last.text, last.original)
        IN  /\ q >= p + Len(frag)
            /\ toLowerCase(Slice(text, p, p + Len(frag))) = toLowerCase(frag)
            /\ \A k \in p..(q - 1) : At(text, k) # NL

\* C27: an apply whose original is the empty string matches at offset 0 with
\* length 0 whatever the live text is: the new text is suggested ++ liveText,
\* the range is {0, len(suggested)}, the index is applied and no "not found"
\* is reported.
C27_EmptyOriginal ==
    (Applied /\ last.original = <<>>) =>
        /\ last.pos = 0
        /\ last.matchLen = 0
        /\ resumeText = last.suggested \o last.text
        /\ highlightRange = [start |-> 0, end |-> Len(last.suggested)]
        /\ last.index \in appliedRewrites
        /\ error = Null

\* the empty original was applied to the empty live text
C27_Witness ==
    /\ Applied
    /\ last.original = <<>>
    /\ last.text = <<>>
    /\ resumeText = <<"z", "z">>

\* `original` occurs verbatim exactly once in text
OccursOnce(text, original) ==
    Cardinality({i \in 0..Len(text) : OccursAt(text, original, i)}) = 1

\* the two rewrites of the response
PairI == At(results.rewrites, 0)
PairJ == At(results.rewrites, 1)

\* the two originals occur once each in the extracted text, at ranges that
\* do not overlap, and neither suggested text contains either original
DisjointPair ==
    /\ results # Null
    /\ Len(results.rewrites) = 2
    /\ LET text == results.resumeText
       IN  /\ OccursOnce(text, PairI.original)
           /\ OccursOnce(text, PairJ.original)
           /\ LET pi == FirstOcc(text, PairI.original)
                  pj == FirstOcc(text, PairJ.original)
              IN  \/ pi + Len(PairI.original) <= pj
                  \/ pj + Len(PairJ.original) <= pi
    /\ \A s \in {PairI.suggested, PairJ.suggested} :
          ~Contains(s, PairI.original) /\ ~Contains(s, PairJ.original)

\* after either rewrite is applied, the original of the other one still
\* occurs exactly once
StablePair ==
    /\ OccursOnce(LocateAndReplace(results.resumeText, PairI).text, PairJ.original)
    /\ OccursOnce(LocateAndReplace(results.resumeText, PairJ).text, PairI.original)

\* i then j and j then i both find their ranges and leave the same text, and
\* a session in which both are applied holds that text
SameEitherOrder ==
    LET ij == FoldApplies(results.resumeText, results.rewrites, <<0, 1>>)
        ji == FoldApplies(results.resumeText, results.rewrites, <<1, 0>>)
    IN  /\ ij.found /\ ji.found
        /\ ij.text = ji.text
        /\ appliedRewrites = {0, 1} => resumeText = ij.text

\* C28 as stated: two rewrites whose originals occur once each at ranges that
\* do not overlap, with suggested texts that contain neither original, give
\* the same text and applied set in either order.
C28_OrderIndependent == DisjointPair => SameEitherOrder

\* C28: the same, for pairs in which applying either rewrite leaves exactly
\* one occurrence of the other's original.
C28_OrderIndependentStable == (DisjointPair /\ StablePair) => SameEitherOrder

\* both rewrites of such a pair are applied, each having changed the text
C28_Witness ==
    /\ DisjointPair /\ StablePair
    /\ appliedRewrites = {0, 1}
    /\ PairI.original # PairJ.original
    /\ Len(results.resumeText) = MaxPairLen
    /\ AppliedFound

\* C29: a submission that passes the validation of the client sets isLoading
\* and starts the request; when the request settles isLoading is false again
\* whatever the outcome; results becomes non-null only by an OK response with
\* a JSON body, and every other outcome sets error and leaves results null.
C29_SubmissionSettles ==
    /\ [][/\ (Ran("submit") /\ resumeFile /\ trim(jobDescription) # <<>>) =>
                (isLoading' /\ request' = "pending" /\ results' = Null)
          /\ (~isLoading /\ isLoading') => Ran("submit")
          /\ (request = "pending" /\ request' = "none") => ~isLoading'
          /\ (results = Null /\ results' # Null) => Ran("submitOk")
          /\ Ran("submitFailed") => (error' # Null /\ results' = Null)]_vars
    /\ isLoading ~> ~isLoading

\* a request ended by a body that is not JSON: loading is over, the message
\* is shown and there are no results
C29_Witness ==
    /\ last.op = "submitFailed"
    /\ error = MsgBadBody
    /\ ~isLoading
    /\ request = "none"
    /\ results = Null
    /\ resumeFile

====
